---- MODULE Spec2Model ----
(***************************************************************************)
(* A model of the ESpeech TTS API server's job engine:                     *)
(*   app/job_manager.py  JobManager (registry, pool, callbacks, webhooks,  *)
(*                       touch, cleanup_expired)                           *)
(*   app/main.py         the HTTP handlers that call it                    *)
(*   app/tts.py          synthesize_raw / synthesize_to_file, seen from    *)
(*                       the outside: they return or raise, and            *)
(*                       synthesize_to_file writes one artifact file.      *)
(*                                                                         *)
(* Threads: one submit call per job, MAX_WORKERS pool workers, one         *)
(* request thread (create / status / download / HEAD), the event loop      *)
(* (streaming synthesis), one webhook thread per finished job, the cleanup *)
(* sweeper.  A step of the model is one region of code whose inside no     *)
(* other thread can observe: one access made without the lock, or the part *)
(* of a `with self._lock` block between two writes that an unlocked reader *)
(* could tell apart.                                                       *)
(*                                                                         *)
(* The specifications share the actions:                                   *)
(*   SpecPool  the scheduler: up to MaxJobs submissions, the pool, the     *)
(*             completion callbacks, the webhook threads, the streaming    *)
(*             endpoint;                                                   *)
(*   Spec      the registry under readers and the sweeper: up to MaxServed *)
(*             submissions, the pool, the callbacks, the request thread,   *)
(*             the clock and cleanup_expired;                              *)
(*   SpecTtl   Spec with a second client inside touch;                     *)
(*   SpecSse   the scheduler with a client on a job's event stream;        *)
(*   SpecStop  the sweeper thread's loop under shutdown;                   *)
(*   SpecEnc   app/tts.py's encoders: one waveform streamed in chunks and  *)
(*             written whole;                                              *)
(*   SpecWav   the WAV stream alone, over long waveforms;                  *)
(*   SpecSeed  synthesize_raw's choice of the seed.                        *)
(***************************************************************************)
EXTENDS Integers, Sequences, FiniteSets, TLC

\* ---------------------------------------------------------------- bounds
\* submissions in SpecPool
MaxJobs == 2
\* submissions in Spec
MaxServed == 1
\* the clock stops here
MaxTime == 2
\* retention_seconds, in ticks of the clock
Retention == 1
\* runs of equal samples in a waveform
MaxRuns == 2
\* PCM chunks of one stream in SpecWav
MaxChunks == 6

\* ------------------------------------------------------ program constants
MAX_WORKERS == 1

\* ---------------------------------------------------------------- values
None == <<>>
JobIds == 1..MaxJobs
Workers == 1..MAX_WORKERS
\* the voices discover_voices() finds, and the voice ids a request may name
Voices == {"v1"}
VoiceIds == {"v1", "ghost"}
Formats == {"wav", "mp3"}
CallbackUrls == {None, <<"http://hook">>}

\* OUTPUT_DIR / f"{voice.id}_{uid}.{ext}": one fresh path per task
OutPath(j) == <<"out", j>>
PathName(p) == <<"name", p[2]>>
MimeOf(fmt) == IF fmt = "wav" THEN <<"audio/wav">> ELSE <<"audio/mpeg">>
\* f"{e}\n{traceback.format_exc()}": never empty (it holds the newline)
Diagnostic == <<"exc", "\n", "trace">>

Job(id, url) ==
  [id |-> id, status |-> "queued", error |-> None, result_path |-> None,
   mime_type |-> None, filename |-> None, last_access_ts |-> 0,
   callback_url |-> url]

VARIABLES
  jobs,      \* JobManager._jobs: id -> Job, in insertion order
  futures,   \* JobManager._futures: the ids stored
  lock,      \* JobManager._lock: None when free, else the holder
  queue,     \* the executor's work queue (ids of the queued tasks)
  fut,       \* per job: its Future and its task [state, voice, fmt]
  spc,       \* per job: where its submit() call is
  cb,        \* per job: where its done_callback is
  cbNow,     \* per job: the `now` done_callback read
  hook,      \* per job: its webhook thread [pc, status of the payload, posts]
  wk,        \* per worker: [pc, job]
  stream,    \* the event loop inside synthesize_stream
  files,     \* OUTPUT_DIR: per path (job id) [state, mtime]
  clock,     \* time.time()
  rq,        \* the request thread: its request, locals and last response
  sw,        \* the sweeper inside cleanup_expired
  poll,      \* a second client inside JobManager.touch: [pc, job, now, status]
  sse,       \* the event generator of sse_job_events
  enc,       \* the audio encoder: one waveform, streamed and written
  stop,      \* _cleanup_stop: the Event is set
  syn        \* one call of synthesize_raw: the seed given and the seed used

vars == <<jobs, futures, lock, queue, fut, spc, cb, cbNow, hook, wk, stream,
          files, clock, rq, sw, poll, sse, enc, stop, syn>>

NoFile == [state |-> "absent", mtime |-> 0]
NoHook == [pc |-> "none", status |-> "none", posts |-> 0]
NoFuture == [state |-> "none", voice |-> "none", fmt |-> "none"]
NoObs == [status |-> "none", error |-> None, audio_url |-> FALSE,
          filename |-> None, mime_type |-> None]
\* the request thread between requests: the last request and its response
Response(op, id, code, body, obs) ==
  [op |-> op, pc |-> "idle", job |-> id, now |-> 0, code |-> code,
   body |-> body, obs |-> obs]
SweeperIdle == [pc |-> "idle", now |-> 0, idx |-> 0, deleted |-> 0, todo |-> {}]
\* the sweeper thread outside cleanup_expired, at place pc of _cleanup_loop
SweeperAt(pc) == [SweeperIdle EXCEPT !.pc = pc]
\* synthesize_raw is not being called
NoSyn == [pc |-> "none"]

\* the second client between touches: the last touch's job and `now`, and
\* the status the job had when it was touched
NoPoll == [pc |-> "idle", job |-> 0, now |-> 0, status |-> "none"]
\* no event stream was opened yet
NoSse == [pc |-> "none", job |-> 0, last |-> None, events |-> <<>>,
          disconnected |-> FALSE]
\* no waveform is being encoded
NoEnc == [pc |-> "none"]

\* the server after start-up: JobManager() and nothing running
InitServer ==
  /\ jobs = <<>>
  /\ futures = {}
  /\ lock = None
  /\ queue = <<>>
  /\ fut = [j \in JobIds |-> NoFuture]
  /\ spc = [j \in JobIds |-> "none"]
  /\ cb = [j \in JobIds |-> "none"]
  /\ cbNow = [j \in JobIds |-> 0]
  /\ hook = [j \in JobIds |-> NoHook]
  /\ wk = [w \in Workers |-> [pc |-> "idle", job |-> 0]]
  /\ stream = "idle"
  /\ files = [j \in JobIds |-> NoFile]
  /\ clock = 1
  /\ rq = Response("none", 0, 0, "none", NoObs)
  /\ sw = SweeperAt("warmup")
  /\ poll = NoPoll
  /\ sse = NoSse
  /\ stop = FALSE

Init == InitServer /\ enc = NoEnc /\ syn = NoSyn

Finished(j) == fut[j].state \in {"ok", "fail"}

\* -------------------------------------------------- create_synthesis_job
\* A submit that names every job with the same id: the second record
\* replaces the first.
SubmitKnown_SameId(cap, v, url) ==
  /\ Len(jobs) < cap
  /\ lock = None
  /\ jobs' = IF jobs = <<>> THEN <<Job(1, url)>> ELSE [jobs EXCEPT ![1] = Job(1, url)]
  /\ spc' = [spc EXCEPT ![1] = "enqueue"]
  /\ fut' = [fut EXCEPT ![1].voice = v]
  /\ UNCHANGED <<futures, lock, queue, cb, cbNow, hook, wk, stream, files,
                 clock, rq, sw, poll, sse, enc, stop, syn>>

\* main.py 106-119 for a known voice, with JobManager.submit lines 51-54
\* and 87-88 (the second locked write stores "queued" over "queued").
SubmitKnown(cap, v, url) ==
  LET id == Len(jobs) + 1 IN
  /\ Len(jobs) < cap
  /\ lock = None
  /\ jobs' = Append(jobs, Job(id, url))
  /\ spc' = [spc EXCEPT ![id] = "enqueue"]
  /\ fut' = [fut EXCEPT ![id].voice = v]
  /\ UNCHANGED <<futures, lock, queue, cb, cbNow, hook, wk, stream, files,
                 clock, rq, sw,
                 poll, sse, enc, stop, syn>>

\* main.py 106-109: raise HTTPException(404, "Voice ... not found.")
SubmitUnknown(v) ==
  /\ rq.pc = "idle"
  /\ rq' = Response("create", 0, 404, "none", NoObs)
  /\ UNCHANGED <<jobs, futures, lock, queue, fut, spc, cb, cbNow, hook, wk,
                 stream, files, clock, sw,
                 poll, sse, enc, stop, syn>>

\* A handler that submits without looking the voice up.
CreateSynthesisJob_NoVoiceCheck(cap, v, url) == SubmitKnown(cap, v, url)

CreateSynthesisJob(cap, v, url) ==
  IF v \in Voices THEN SubmitKnown(cap, v, url) ELSE SubmitUnknown(v)

\* ------------------------------------------------------ JobManager.submit
\* line 90: self._executor.submit(self._run_with_status, job_id, task)
SubmitEnqueue(j) ==
  /\ spc[j] = "enqueue"
  /\ queue' = Append(queue, j)
  /\ fut' = [fut EXCEPT ![j].state = "pending"]
  /\ spc' = [spc EXCEPT ![j] = "attach"]
  /\ UNCHANGED <<jobs, futures, lock, cb, cbNow, hook, wk, stream, files,
                 clock, rq, sw,
                 poll, sse, enc, stop, syn>>

\* line 91: fut.add_done_callback(done_callback). A future that has already
\* finished runs the callback at once, in the submitting thread.
SubmitAttach(j) ==
  /\ spc[j] = "attach"
  /\ IF Finished(j)
       THEN cb' = [cb EXCEPT ![j] = "start"] /\ spc' = [spc EXCEPT ![j] = "inline"]
       ELSE cb' = [cb EXCEPT ![j] = "wait"] /\ spc' = [spc EXCEPT ![j] = "store"]
  /\ UNCHANGED <<jobs, futures, lock, queue, fut, cbNow, hook, wk, stream,
                 files, clock, rq, sw,
                 poll, sse, enc, stop, syn>>

\* lines 92-94: with self._lock: self._futures[job_id] = fut; return job_id,
\* and main.py 121: the response {"job_id", "status": "queued"}.
SubmitStore(j) ==
  /\ spc[j] = "store"
  /\ lock = None
  /\ futures' = futures \cup {j}
  /\ spc' = [spc EXCEPT ![j] = "returned"]
  /\ UNCHANGED <<jobs, lock, queue, fut, cb, cbNow, hook, wk, stream, files,
                 clock, rq, sw,
                 poll, sse, enc, stop, syn>>

\* ------------------------------------------------------------ pool worker
\* A worker takes the oldest queued task; _run_with_status (119-121) marks
\* the job running under the lock.
RunWithStatus(w) ==
  /\ wk[w].pc = "idle"
  /\ queue # <<>>
  /\ lock = None
  /\ LET j == Head(queue) IN
       /\ queue' = Tail(queue)
       /\ fut' = [fut EXCEPT ![j].state = "running"]
       /\ jobs' = [jobs EXCEPT ![j].status = "running"]
       /\ wk' = [wk EXCEPT ![w] = [pc |-> "synth", job |-> j]]
  /\ UNCHANGED <<futures, lock, spc, cb, cbNow, hook, stream, files, clock,
                 rq, sw,
                 poll, sse, enc, stop, syn>>

\* A pool whose worker thread dies with the task's exception: the future is
\* never finished and the worker takes no further task.
FinishFuture_WorkerDies(w, j, outcome) ==
  IF outcome = "fail"
    THEN /\ wk' = [wk EXCEPT ![w] = [pc |-> "dead", job |-> j]]
         /\ UNCHANGED <<fut, cb>>
    ELSE /\ fut' = [fut EXCEPT ![j].state = outcome]
         /\ IF cb[j] = "wait"
              THEN cb' = [cb EXCEPT ![j] = "start"]
                   /\ wk' = [wk EXCEPT ![w] = [pc |-> "callback", job |-> j]]
              ELSE cb' = cb
                   /\ wk' = [wk EXCEPT ![w] = [pc |-> "idle", job |-> 0]]

\* The future finishes (set_result / set_exception): an attached callback
\* runs now, in the worker thread; otherwise the worker is free again.
FinishFuture(w, j, outcome) ==
  /\ fut' = [fut EXCEPT ![j].state = outcome]
  /\ IF cb[j] = "wait"
       THEN cb' = [cb EXCEPT ![j] = "start"]
            /\ wk' = [wk EXCEPT ![w] = [pc |-> "callback", job |-> j]]
       ELSE cb' = cb
            /\ wk' = [wk EXCEPT ![w] = [pc |-> "idle", job |-> 0]]

\* tts.py 237-239: synthesize_raw returns the waveform or raises.
SynthesizeRaw(w, ok) ==
  /\ wk[w].pc = "synth"
  /\ IF ok
       THEN /\ wk' = [wk EXCEPT ![w].pc = "write"]
            /\ UNCHANGED <<fut, cb>>
       ELSE FinishFuture(w, wk[w].job, "fail")
  /\ UNCHANGED <<jobs, futures, lock, queue, spc, cbNow, hook, stream, files,
                 clock, rq, sw,
                 poll, sse, enc, stop, syn>>

\* tts.py 241-251: the task's fmt picks the encoder and the extension; the
\* file is opened and written (sf.write / write_bytes). A write that
\* raises may leave nothing or a partial file behind.
WriteOpen(w, fmt, ok) ==
  /\ wk[w].pc = "write"
  /\ IF ok
       THEN /\ files' = [files EXCEPT ![wk[w].job] =
                           [state |-> "partial", mtime |-> clock]]
            /\ wk' = [wk EXCEPT ![w].pc = "writing"]
            /\ fut' = [fut EXCEPT ![wk[w].job].fmt = fmt]
            /\ UNCHANGED cb
       ELSE /\ FinishFuture(w, wk[w].job, "fail")
            /\ UNCHANGED files
  /\ UNCHANGED <<jobs, futures, lock, queue, spc, cbNow, hook, stream, clock,
                 rq, sw,
                 poll, sse, enc, stop, syn>>

\* tts.py 245-253: the write completes and (out_path, mime) is returned, or
\* it raises half-way.
WriteClose(w, ok) ==
  /\ wk[w].pc = "writing"
  /\ IF ok
       THEN /\ files' = [files EXCEPT ![wk[w].job] =
                           [state |-> "complete", mtime |-> clock]]
            /\ FinishFuture(w, wk[w].job, "ok")
       ELSE /\ FinishFuture(w, wk[w].job, "fail")
            /\ UNCHANGED files
  /\ UNCHANGED <<jobs, futures, lock, queue, spc, cbNow, hook, stream, clock,
                 rq, sw,
                 poll, sse, enc, stop, syn>>

\* ---------------------------------------------------------- done_callback
\* The callback returns (or its exception is logged by the Future): the
\* thread that ran it goes on.
EndCallback(j) ==
  /\ cb' = [cb EXCEPT ![j] = "end"]
  /\ wk' = [w \in Workers |->
              IF wk[w].pc = "callback" /\ wk[w].job = j
                THEN [pc |-> "idle", job |-> 0] ELSE wk[w]]
  /\ spc' = [spc EXCEPT ![j] = IF spc[j] = "inline" THEN "store" ELSE spc[j]]

\* lines 68-69: fut.result() returns or re-raises; now = time.time()
CallbackResult(j) ==
  /\ cb[j] = "start"
  /\ IF fut[j].state = "ok"
       THEN cb' = [cb EXCEPT ![j] = "set_done"]
            /\ cbNow' = [cbNow EXCEPT ![j] = clock]
       ELSE cb' = [cb EXCEPT ![j] = "set_error"] /\ UNCHANGED cbNow
  /\ UNCHANGED <<jobs, futures, lock, queue, fut, spc, hook, wk, stream, files,
                 clock, rq, sw,
                 poll, sse, enc, stop, syn>>

\* lines 70-72: the lock is taken and j.status = "done"
CallbackDoneStatus(j) ==
  /\ cb[j] = "set_done"
  /\ lock = None
  /\ lock' = <<"callback", j>>
  /\ jobs' = [jobs EXCEPT ![j].status = "done"]
  /\ cb' = [cb EXCEPT ![j] = "set_path"]
  /\ UNCHANGED <<futures, queue, fut, spc, cbNow, hook, wk, stream, files,
                 clock, rq, sw,
                 poll, sse, enc, stop, syn>>

\* line 73: j.result_path = out_path
CallbackDonePath(j) ==
  /\ cb[j] = "set_path"
  /\ jobs' = [jobs EXCEPT ![j].result_path = OutPath(j)]
  /\ cb' = [cb EXCEPT ![j] = "set_mime"]
  /\ UNCHANGED <<futures, lock, queue, fut, spc, cbNow, hook, wk, stream,
                 files, clock, rq, sw,
                 poll, sse, enc, stop, syn>>

\* line 74: j.mime_type = mime
CallbackDoneMime(j) ==
  /\ cb[j] = "set_mime"
  /\ jobs' = [jobs EXCEPT ![j].mime_type = MimeOf(fut[j].fmt)]
  /\ cb' = [cb EXCEPT ![j] = "set_name"]
  /\ UNCHANGED <<futures, lock, queue, fut, spc, cbNow, hook, wk, stream,
                 files, clock, rq, sw,
                 poll, sse, enc, stop, syn>>

\* lines 75-76: j.filename = out_path.name; j.last_access_ts = now; the lock
\* is released (last_access_ts is only ever read under the lock).
CallbackDoneName(j) ==
  /\ cb[j] = "set_name"
  /\ jobs' = [jobs EXCEPT ![j].filename = PathName(OutPath(j)),
                          ![j].last_access_ts = cbNow[j]]
  /\ lock' = None
  /\ cb' = [cb EXCEPT ![j] = "hook"]
  /\ UNCHANGED <<futures, queue, fut, spc, cbNow, hook, wk, stream, files,
                 clock, rq, sw,
                 poll, sse, enc, stop, syn>>

\* lines 116-117 called from line 78, inside the try: the webhook thread
\* starts, or Thread.start() raises (RuntimeError: can't start new thread)
\* and the except branch of line 79 takes over.
CallbackHook(j, started) ==
  /\ cb[j] = "hook"
  /\ IF started
       THEN /\ hook' = [hook EXCEPT ![j].pc = "started"]
            /\ EndCallback(j)
       ELSE /\ cb' = [cb EXCEPT ![j] = "set_error"]
            /\ UNCHANGED <<hook, wk, spc>>
  /\ UNCHANGED <<jobs, futures, lock, queue, fut, cbNow, stream, files, clock,
                 rq, sw,
                 poll, sse, enc, stop, syn>>

\* lines 80-82: the lock is taken and j.status = "error"
CallbackErrorStatus(j) ==
  /\ cb[j] = "set_error"
  /\ lock = None
  /\ lock' = <<"callback", j>>
  /\ jobs' = [jobs EXCEPT ![j].status = "error"]
  /\ cb' = [cb EXCEPT ![j] = "set_diag"]
  /\ UNCHANGED <<futures, queue, fut, spc, cbNow, hook, wk, stream, files,
                 clock, rq, sw,
                 poll, sse, enc, stop, syn>>

\* An except branch that records the status and forgets the diagnostic.
CallbackErrorDiag_NoDiagnostic(j) ==
  /\ cb[j] = "set_diag"
  /\ lock' = None
  /\ cb' = [cb EXCEPT ![j] = "hook_error"]
  /\ UNCHANGED <<jobs, futures, queue, fut, spc, cbNow, hook, wk, stream,
                 files, clock, rq, sw,
                 poll, sse, enc, stop, syn>>

\* line 83: j.error = f"{e}\n{traceback.format_exc()}"; the lock is released
CallbackErrorDiag(j) ==
  /\ cb[j] = "set_diag"
  /\ jobs' = [jobs EXCEPT ![j].error = Diagnostic]
  /\ lock' = None
  /\ cb' = [cb EXCEPT ![j] = "hook_error"]
  /\ UNCHANGED <<futures, queue, fut, spc, cbNow, hook, wk, stream, files,
                 clock, rq, sw,
                 poll, sse, enc, stop, syn>>

\* line 85: the webhook thread starts, or Thread.start() raises out of the
\* callback (the Future logs and drops the exception).
CallbackHookError(j, started) ==
  /\ cb[j] = "hook_error"
  /\ hook' = [hook EXCEPT ![j].pc = IF started THEN "started" ELSE @]
  /\ EndCallback(j)
  /\ UNCHANGED <<jobs, futures, lock, queue, fut, cbNow, stream, files, clock,
                 rq, sw,
                 poll, sse, enc, stop, syn>>

\* ---------------------------------------------- _post_webhook_safe._worker
\* A webhook thread that posts whether or not the job has a callback_url.
WebhookGet_NoUrlCheck(j) ==
  /\ hook[j].pc = "started"
  /\ lock = None
  /\ hook' = [hook EXCEPT ![j].pc = "post", ![j].status = jobs[j].status]
  /\ UNCHANGED <<jobs, futures, lock, queue, fut, spc, cb, cbNow, wk, stream,
                 files, clock, rq, sw, poll, sse, enc, stop, syn>>

\* lines 99-108: job = self.get(job_id); no callback_url: return; else the
\* payload is built from the job.
WebhookGet(j) ==
  /\ hook[j].pc = "started"
  /\ lock = None
  /\ IF jobs[j].callback_url = None
       THEN hook' = [hook EXCEPT ![j].pc = "finished"]
       ELSE hook' = [hook EXCEPT ![j].pc = "post", ![j].status = jobs[j].status]
  /\ UNCHANGED <<jobs, futures, lock, queue, fut, spc, cb, cbNow, wk, stream,
                 files, clock, rq, sw,
                 poll, sse, enc, stop, syn>>

\* lines 109-114: requests.post returns or raises; the error is dropped.
WebhookPost(j, ok) ==
  /\ hook[j].pc = "post"
  /\ hook' = [hook EXCEPT ![j].pc = "finished", ![j].posts = @ + 1]
  /\ UNCHANGED <<jobs, futures, lock, queue, fut, spc, cb, cbNow, wk, stream,
                 files, clock, rq, sw,
                 poll, sse, enc, stop, syn>>

\* ------------------------------------------------------ synthesize_stream
\* main.py 236-248: the voice is looked up (404) and synthesize_raw is
\* called in the event loop's thread, outside the pool.
StreamBegin(v) ==
  /\ stream = "idle"
  /\ v \in Voices
  /\ stream' = "synth"
  /\ UNCHANGED <<jobs, futures, lock, queue, fut, spc, cb, cbNow, hook, wk,
                 files, clock, rq, sw,
                 poll, sse, enc, stop, syn>>

\* main.py 242-256: synthesize_raw returns (the response streams) or raises.
StreamEnd ==
  /\ stream = "synth"
  /\ stream' = "idle"
  /\ UNCHANGED <<jobs, futures, lock, queue, fut, spc, cb, cbNow, hook, wk,
                 files, clock, rq, sw,
                 poll, sse, enc, stop, syn>>

\* -------------------------------------------------------- request thread
\* The file a job's result_path names exists (Path.exists()).
Exists(path) == path # None /\ files[path[2]].state # "absent"

Requests == {"status", "download", "head"}

\* main.py 126-128, 149-151, 174-176: job = jobs.get(job_id) under the
\* lock (job_manager.py 124-126); an unknown id is a 404. The handler keeps
\* the Job object itself and reads its fields later, without the lock.
RequestGet(op, id) ==
  /\ rq.pc = "idle"
  /\ lock = None
  /\ IF id \notin DOMAIN jobs
       THEN rq' = Response(op, id, 404, "none", NoObs)
       ELSE rq' = [op |-> op, pc |-> IF op = "status" THEN "touch_now" ELSE "check",
                   job |-> id, now |-> 0, code |-> 0, body |-> "none",
                   obs |-> NoObs]
  /\ UNCHANGED <<jobs, futures, lock, queue, fut, spc, cb, cbNow, hook, wk,
                 stream, files, clock, sw,
                 poll, sse, enc, stop, syn>>

\* main.py 152-157 and 177-180: 409 unless status is done, 410 unless
\* the artifact is there.
AudioCheck ==
  /\ rq.pc = "check"
  /\ LET j == jobs[rq.job] IN
       IF j.status # "done"
         THEN rq' = Response(rq.op, rq.job, 409, "none", NoObs)
         ELSE IF ~Exists(j.result_path)
                THEN rq' = Response(rq.op, rq.job, 410, "none", NoObs)
                ELSE rq' = [rq EXCEPT !.pc = "touch_now"]
  /\ UNCHANGED <<jobs, futures, lock, queue, fut, spc, cb, cbNow, hook, wk,
                 stream, files, clock, sw,
                 poll, sse, enc, stop, syn>>

\* job_manager.py 136: now = time.time(), before the lock is taken
TouchNow ==
  /\ rq.pc = "touch_now"
  /\ rq' = [rq EXCEPT !.pc = "touch", !.now = clock]
  /\ UNCHANGED <<jobs, futures, lock, queue, fut, spc, cb, cbNow, hook, wk,
                 stream, files, clock, sw,
                 poll, sse, enc, stop, syn>>

\* job_manager.py 137-145: under the lock, last_access_ts = now and the
\* artifact's times are set to now (os.utime may fail: ignored).
Touch(utime) ==
  /\ rq.pc = "touch"
  /\ lock = None
  /\ LET j == jobs[rq.job] IN
       /\ jobs' = [jobs EXCEPT ![rq.job].last_access_ts = rq.now]
       /\ files' = IF Exists(j.result_path) /\ utime
                     THEN [files EXCEPT ![j.result_path[2]].mtime = rq.now]
                     ELSE files
  /\ rq' = [rq EXCEPT !.pc = CASE rq.op = "status" -> "audio_url"
                               [] rq.op = "download" -> "read"
                               [] OTHER -> "head"]
  /\ UNCHANGED <<futures, lock, queue, fut, spc, cb, cbNow, hook, wk, stream,
                 clock, sw,
                 poll, sse, enc, stop, syn>>

\* main.py 133-135: audio_url is given when the job is done and its
\* artifact exists.
StatusAudioUrl ==
  /\ rq.pc = "audio_url"
  /\ LET j == jobs[rq.job] IN
       rq' = [rq EXCEPT !.pc = "build",
                        !.obs.audio_url = (j.status = "done" /\ Exists(j.result_path))]
  /\ UNCHANGED <<jobs, futures, lock, queue, fut, spc, cb, cbNow, hook, wk,
                 stream, files, clock, sw,
                 poll, sse, enc, stop, syn>>

\* main.py 137-144: the JobStatus response is built from the job's fields.
StatusBuild ==
  /\ rq.pc = "build"
  /\ LET j == jobs[rq.job] IN
       rq' = Response("status", rq.job, 200, "none",
                      [status |-> j.status, error |-> j.error,
                       audio_url |-> rq.obs.audio_url,
                       filename |-> j.filename, mime_type |-> j.mime_type])
  /\ UNCHANGED <<jobs, futures, lock, queue, fut, spc, cb, cbNow, hook, wk,
                 stream, files, clock, sw,
                 poll, sse, enc, stop, syn>>

\* main.py 162-168: path = job.result_path; path.read_bytes(). A None path
\* (AttributeError) or a missing file (FileNotFoundError) is an unhandled
\* exception: the server answers 500.
DownloadRead ==
  /\ rq.pc = "read"
  /\ LET j == jobs[rq.job] IN
       IF Exists(j.result_path)
         THEN rq' = Response("download", rq.job, 200,
                             files[j.result_path[2]].state, NoObs)
         ELSE rq' = Response("download", rq.job, 500, "none", NoObs)
  /\ UNCHANGED <<jobs, futures, lock, queue, fut, spc, cb, cbNow, hook, wk,
                 stream, files, clock, sw,
                 poll, sse, enc, stop, syn>>

\* main.py 183-187: path = job.result_path; path.name (AttributeError on
\* None: 500).
HeadRespond ==
  /\ rq.pc = "head"
  /\ LET j == jobs[rq.job] IN
       rq' = Response("head", rq.job,
                      IF j.result_path = None THEN 500 ELSE 200, "none", NoObs)
  /\ UNCHANGED <<jobs, futures, lock, queue, fut, spc, cb, cbNow, hook, wk,
                 stream, files, clock, sw,
                 poll, sse, enc, stop, syn>>

\* ------------------------------------------- a second, concurrent client
\* get_job_status is a plain def: the server runs each request in a thread
\* of its own, so two calls of touch can be in progress. A second
\* GET /jobs/{id} has found its job (main.py 126) and is inside touch:
\* job_manager.py 136, now = time.time(), before the lock is taken.
PollTouchNow(id) ==
  /\ poll.pc = "idle"
  /\ id \in DOMAIN jobs
  /\ poll' = [pc |-> "touch", job |-> id, now |-> clock, status |-> "none"]
  /\ UNCHANGED <<jobs, futures, lock, queue, fut, spc, cb, cbNow, hook, wk,
                 stream, files, clock, rq, sw, sse, enc, stop, syn>>

\* job_manager.py 137-145: under the lock, last_access_ts = now and the
\* artifact's times are set to now (os.utime may fail: ignored).
PollTouch(utime) ==
  /\ poll.pc = "touch"
  /\ lock = None
  /\ LET j == jobs[poll.job] IN
       /\ jobs' = [jobs EXCEPT ![poll.job].last_access_ts = poll.now]
       /\ files' = IF Exists(j.result_path) /\ utime
                     THEN [files EXCEPT ![j.result_path[2]].mtime = poll.now]
                     ELSE files
       /\ poll' = [poll EXCEPT !.pc = "idle", !.status = j.status]
  /\ UNCHANGED <<futures, lock, queue, fut, spc, cb, cbNow, hook, wk, stream,
                 clock, rq, sw, sse, enc, stop, syn>>

\* --------------------------------------------------------- sse_job_events
\* the payload of one "status" event; {"error": "not_found"} for an
\* unknown job
Event(j) ==
  [status |-> j.status, filename |-> j.filename, mime_type |-> j.mime_type,
   audio_url |-> (j.status = "done" /\ Exists(j.result_path))]
NotFoundEvent ==
  [status |-> "not_found", filename |-> None, mime_type |-> None,
   audio_url |-> FALSE]

\* main.py 192-198, 225: the generator starts with last_status = None
SseOpen(id) ==
  /\ sse.pc = "none"
  /\ sse' = [pc |-> "get", job |-> id, last |-> None, events |-> <<>>,
             disconnected |-> FALSE]
  /\ UNCHANGED <<jobs, futures, lock, queue, fut, spc, cb, cbNow, hook, wk,
                 stream, files, clock, rq, sw, poll, enc, stop, syn>>

\* lines 200-201: the client has gone: the generator stops
SseDisconnect ==
  /\ sse.pc = "get"
  /\ sse' = [sse EXCEPT !.pc = "closed", !.disconnected = TRUE]
  /\ UNCHANGED <<jobs, futures, lock, queue, fut, spc, cb, cbNow, hook, wk,
                 stream, files, clock, rq, sw, poll, enc, stop, syn>>

\* lines 202-206: job = jobs.get(job_id), under the lock; an unknown id
\* yields the not_found event and ends the stream
SseGet ==
  /\ sse.pc = "get"
  /\ lock = None
  /\ IF sse.job \in DOMAIN jobs
       THEN sse' = [sse EXCEPT !.pc = "poll"]
       ELSE sse' = [sse EXCEPT !.pc = "closed",
                               !.events = Append(@, NotFoundEvent)]
  /\ UNCHANGED <<jobs, futures, lock, queue, fut, spc, cb, cbNow, hook, wk,
                 stream, files, clock, rq, sw, poll, enc, stop, syn>>

\* A generator that goes on polling after it has emitted done or error.
SsePoll_NoBreak ==
  /\ sse.pc = "poll"
  /\ LET j == jobs[sse.job] IN
       IF <<j.status>> # sse.last
         THEN sse' = [sse EXCEPT !.events = Append(@, Event(j)),
                                 !.last = <<j.status>>, !.pc = "get"]
         ELSE sse' = [sse EXCEPT !.pc = "get"]
  /\ UNCHANGED <<jobs, futures, lock, queue, fut, spc, cb, cbNow, hook, wk,
                 stream, files, clock, rq, sw, poll, enc, stop, syn>>

\* lines 208-223: status = job.status, read without the lock; an event is
\* emitted if it differs from last_status; done or error ends the stream,
\* anything else sleeps a second and polls again
SsePoll ==
  /\ sse.pc = "poll"
  /\ LET j == jobs[sse.job] IN
       IF <<j.status>> # sse.last
         THEN sse' = [sse EXCEPT !.events = Append(@, Event(j)),
                                 !.last = <<j.status>>,
                                 !.pc = IF j.status \in {"done", "error"}
                                          THEN "closed" ELSE "get"]
         ELSE sse' = [sse EXCEPT !.pc = "get"]
  /\ UNCHANGED <<jobs, futures, lock, queue, fut, spc, cb, cbNow, hook, wk,
                 stream, files, clock, rq, sw, poll, enc, stop, syn>>

\* ---------------------------------------------------------- _cleanup_loop
\* main.py 42: time.sleep(2.0), which no signal shortens
LoopWarmup ==
  /\ sw.pc = "warmup"
  /\ sw' = SweeperAt("check")
  /\ UNCHANGED <<jobs, futures, lock, queue, fut, spc, cb, cbNow, hook, wk,
                 stream, files, clock, rq, poll, sse, enc, stop, syn>>

\* main.py 43: while not _cleanup_stop.is_set(). The test that finds the
\* Event unset leaves the thread about to call cleanup_expired ("idle");
\* the other ends the loop and the thread.
LoopCheck_IgnoresStop ==
  /\ sw.pc = "check"
  /\ sw' = SweeperAt("idle")
  /\ UNCHANGED <<jobs, futures, lock, queue, fut, spc, cb, cbNow, hook, wk,
                 stream, files, clock, rq, poll, sse, enc, stop, syn>>

LoopCheck ==
  /\ sw.pc = "check"
  /\ sw' = SweeperAt(IF stop THEN "exited" ELSE "idle")
  /\ UNCHANGED <<jobs, futures, lock, queue, fut, spc, cb, cbNow, hook, wk,
                 stream, files, clock, rq, poll, sse, enc, stop, syn>>

\* main.py 48: _cleanup_stop.wait(timeout=CLEANUP_INTERVAL_SECONDS) returns,
\* the Event set or the interval over
LoopWait ==
  /\ sw.pc = "wait"
  /\ sw' = SweeperAt("check")
  /\ UNCHANGED <<jobs, futures, lock, queue, fut, spc, cb, cbNow, hook, wk,
                 stream, files, clock, rq, poll, sse, enc, stop, syn>>

\* main.py 56-57: the service shuts down: _cleanup_stop.set()
Shutdown ==
  /\ ~stop
  /\ stop' = TRUE
  /\ UNCHANGED <<jobs, futures, lock, queue, fut, spc, cb, cbNow, hook, wk,
                 stream, files, clock, rq, sw, poll, sse, enc, syn>>

\* -------------------------------------------------------- cleanup_expired
\* job_manager.py 156-157: now = time.time(); deleted = 0
CleanupBegin ==
  /\ sw.pc = "idle"
  /\ sw' = [pc |-> "lock", now |-> clock, idx |-> 0, deleted |-> 0, todo |-> {}]
  /\ UNCHANGED <<jobs, futures, lock, queue, fut, spc, cb, cbNow, hook, wk,
                 stream, files, clock, rq,
                 poll, sse, enc, stop, syn>>

\* line 158: with self._lock; the jobs are visited in insertion order
CleanupLock ==
  /\ sw.pc = "lock"
  /\ lock = None
  /\ lock' = <<"sweeper">>
  /\ sw' = [sw EXCEPT !.pc = "jobs", !.idx = 1]
  /\ UNCHANGED <<jobs, futures, queue, fut, spc, cb, cbNow, hook, wk, stream,
                 files, clock, rq,
                 poll, sse, enc, stop, syn>>

\* line 161: last = j.last_access_ts or j.result_path.stat().st_mtime
LastAccess(j) ==
  IF j.last_access_ts # 0 THEN j.last_access_ts ELSE files[j.result_path[2]].mtime

\* line 162: now - last >= retention_seconds
Expired(now, last) == now >= last + Retention

\* A loop that evicts by age alone, whatever the job's status.
CleanupJob_AnyStatus(unlinked) ==
  /\ sw.pc = "jobs"
  /\ sw.idx \in DOMAIN jobs
  /\ LET j == jobs[sw.idx] IN
       IF Exists(j.result_path) /\ Expired(sw.now, LastAccess(j))
         THEN /\ files' = IF unlinked
                            THEN [files EXCEPT ![j.result_path[2]] = NoFile]
                            ELSE files
              /\ sw' = [sw EXCEPT !.pc = "clear_path",
                                  !.deleted = IF unlinked THEN @ + 1 ELSE @]
         ELSE /\ sw' = [sw EXCEPT !.idx = @ + 1]
              /\ UNCHANGED files
  /\ UNCHANGED <<jobs, futures, lock, queue, fut, spc, cb, cbNow, hook, wk,
                 stream, clock, rq, poll, sse, enc, stop, syn>>

\* lines 159-167: one job of the loop. An expired artifact is unlinked
\* (the unlink may raise: swallowed, not counted).
CleanupJob(unlinked) ==
  /\ sw.pc = "jobs"
  /\ sw.idx \in DOMAIN jobs
  /\ LET j == jobs[sw.idx] IN
       IF j.status = "done" /\ Exists(j.result_path)
          /\ Expired(sw.now, LastAccess(j))
         THEN /\ files' = IF unlinked
                            THEN [files EXCEPT ![j.result_path[2]] = NoFile]
                            ELSE files
              /\ sw' = [sw EXCEPT !.pc = "clear_path",
                                  !.deleted = IF unlinked THEN @ + 1 ELSE @]
         ELSE /\ sw' = [sw EXCEPT !.idx = @ + 1]
              /\ UNCHANGED files
  /\ UNCHANGED <<jobs, futures, lock, queue, fut, spc, cb, cbNow, hook, wk,
                 stream, clock, rq,
                 poll, sse, enc, stop, syn>>

\* line 160: j.result_path.exists() is called for a done job with a
\* result_path, outside any try. Path.exists() swallows ENOENT, ENOTDIR,
\* EBADF and ELOOP only: any other OSError (EACCES, EIO, ...) leaves
\* cleanup_expired as an exception; the `with` releases the lock.
CleanupCheckRaises ==
  /\ sw.pc = "jobs"
  /\ sw.idx \in DOMAIN jobs
  /\ jobs[sw.idx].status = "done"
  /\ jobs[sw.idx].result_path # None
  /\ lock' = None
  /\ sw' = [sw EXCEPT !.pc = "raised"]
  /\ UNCHANGED <<jobs, futures, queue, fut, spc, cb, cbNow, hook, wk, stream,
                 files, clock, rq, poll, sse, enc, stop, syn>>

\* main.py 44-48: _cleanup_loop catches the exception and waits for the
\* next cycle.
CleanupLoopCatch ==
  /\ sw.pc = "raised"
  /\ sw' = SweeperAt("wait")
  /\ UNCHANGED <<jobs, futures, lock, queue, fut, spc, cb, cbNow, hook, wk,
                 stream, files, clock, rq, poll, sse, enc, stop, syn>>

\* line 169 (finally): j.result_path = None
CleanupClearPath ==
  /\ sw.pc = "clear_path"
  /\ jobs' = [jobs EXCEPT ![sw.idx].result_path = None]
  /\ sw' = [sw EXCEPT !.pc = "clear_name"]
  /\ UNCHANGED <<futures, lock, queue, fut, spc, cb, cbNow, hook, wk, stream,
                 files, clock, rq,
                 poll, sse, enc, stop, syn>>

\* line 170: j.filename = None
CleanupClearName ==
  /\ sw.pc = "clear_name"
  /\ jobs' = [jobs EXCEPT ![sw.idx].filename = None]
  /\ sw' = [sw EXCEPT !.pc = "clear_mime"]
  /\ UNCHANGED <<futures, lock, queue, fut, spc, cb, cbNow, hook, wk, stream,
                 files, clock, rq,
                 poll, sse, enc, stop, syn>>

\* An eviction that leaves mime_type behind.
CleanupClearMime_KeepsMime ==
  /\ sw.pc = "clear_mime"
  /\ sw' = [sw EXCEPT !.pc = "jobs", !.idx = @ + 1]
  /\ UNCHANGED <<jobs, futures, lock, queue, fut, spc, cb, cbNow, hook, wk,
                 stream, files, clock, rq,
                 poll, sse, enc, stop, syn>>

\* line 171: j.mime_type = None, and on to the next job
CleanupClearMime ==
  /\ sw.pc = "clear_mime"
  /\ jobs' = [jobs EXCEPT ![sw.idx].mime_type = None]
  /\ sw' = [sw EXCEPT !.pc = "jobs", !.idx = @ + 1]
  /\ UNCHANGED <<futures, lock, queue, fut, spc, cb, cbNow, hook, wk, stream,
                 files, clock, rq,
                 poll, sse, enc, stop, syn>>

\* the loop ends: the lock is released; line 173 lists OUTPUT_DIR
CleanupUnlock ==
  /\ sw.pc = "jobs"
  /\ sw.idx \notin DOMAIN jobs
  /\ lock' = None
  /\ sw' = [sw EXCEPT !.pc = "orphans", !.idx = 0,
                      !.todo = {p \in JobIds : files[p].state # "absent"}]
  /\ UNCHANGED <<jobs, futures, queue, fut, spc, cb, cbNow, hook, wk, stream,
                 files, clock, rq,
                 poll, sse, enc, stop, syn>>

\* lines 185-190: _is_tracked_file, under the lock
IsTrackedFile(p) == \E i \in DOMAIN jobs : jobs[i].result_path = OutPath(p)

\* lines 175-178: a listed path that is still a file, is old enough and is
\* tracked by no job is to be unlinked.
CleanupOrphan(p) ==
  /\ sw.pc = "orphans"
  /\ p \in sw.todo
  /\ IF files[p].state # "absent" /\ Expired(sw.now, files[p].mtime)
       THEN /\ lock = None
            /\ IF IsTrackedFile(p)
                 THEN sw' = [sw EXCEPT !.todo = @ \ {p}]
                 ELSE sw' = [sw EXCEPT !.pc = "unlink", !.idx = p]
       ELSE sw' = [sw EXCEPT !.todo = @ \ {p}]
  /\ UNCHANGED <<jobs, futures, lock, queue, fut, spc, cb, cbNow, hook, wk,
                 stream, files, clock, rq,
                 poll, sse, enc, stop, syn>>

\* lines 174-177 and 181-182: is_file() or stat() raises for a listed
\* path: the error is swallowed and the path is skipped.
CleanupOrphanRaises(p) ==
  /\ sw.pc = "orphans"
  /\ p \in sw.todo
  /\ sw' = [sw EXCEPT !.todo = @ \ {p}]
  /\ UNCHANGED <<jobs, futures, lock, queue, fut, spc, cb, cbNow, hook, wk,
                 stream, files, clock, rq, poll, sse, enc, stop, syn>>

\* lines 179-182: p.unlink(missing_ok=True); deleted += 1, or the unlink
\* raises and is swallowed.
CleanupOrphanUnlink(unlinked) ==
  /\ sw.pc = "unlink"
  /\ files' = IF unlinked THEN [files EXCEPT ![sw.idx] = NoFile] ELSE files
  /\ sw' = [sw EXCEPT !.pc = "orphans", !.idx = 0, !.todo = @ \ {sw.idx},
                      !.deleted = IF unlinked THEN @ + 1 ELSE @]
  /\ UNCHANGED <<jobs, futures, lock, queue, fut, spc, cb, cbNow, hook, wk,
                 stream, clock, rq,
                 poll, sse, enc, stop, syn>>

\* line 183: return deleted; main.py 45: the loop drops the count
CleanupReturn ==
  /\ sw.pc = "orphans"
  /\ sw.todo = {}
  /\ sw' = [sw EXCEPT !.pc = "wait", !.now = 0]
  /\ UNCHANGED <<jobs, futures, lock, queue, fut, spc, cb, cbNow, hook, wk,
                 stream, files, clock, rq,
                 poll, sse, enc, stop, syn>>

\* ---------------------------------------------------------- audio encoder
\* A waveform is a mono float array, kept as runs of equal samples
\* [n |-> how many, x |-> the sample]; a sample is the fraction <<num, den>>.
\* A byte string is kept the same way: runs of equal pieces, a piece being
\* the 44 header bytes, the 2 bytes of one PCM sample or one MP3 frame.
Samples == {<<0 - 3, 2>>, <<0 - 1, 2>>, <<0, 1>>, <<1, 2>>, <<1, 1>>}
RunLens == {1, 4096}
SampleRates == {24000}
ChunkSamples == {0 - 1, 0, 1, 5000, 48000}

Min(a, b) == IF a <= b THEN a ELSE b
Max(a, b) == IF a >= b THEN a ELSE b

RECURSIVE TotalLen(_)
TotalLen(runs) ==
  IF runs = <<>> THEN 0 ELSE Head(runs).n + TotalLen(Tail(runs))

\* runs[a:b], the slice of an array
RECURSIVE Slice(_, _, _)
Slice(runs, a, b) ==
  IF runs = <<>> \/ b <= 0 \/ a >= b THEN <<>>
  ELSE LET r == Head(runs) IN
         IF a >= r.n
           THEN Slice(Tail(runs), a - r.n, b - r.n)
           ELSE <<[n |-> Min(b, r.n) - a, x |-> r.x]>>
                  \o Slice(Tail(runs), 0, b - r.n)

\* equal arrays (and equal byte strings) have equal canonical runs
RECURSIVE Canon(_)
Canon(runs) ==
  IF Len(runs) <= 1 THEN runs
  ELSE LET h == Head(runs)
           rest == Canon(Tail(runs))
       IN IF rest[1].x = h.x
            THEN <<[n |-> h.n + rest[1].n, x |-> h.x]>> \o Tail(rest)
            ELSE <<h>> \o rest

\* b"".join(chunks)
RECURSIVE Join(_)
Join(chunks) ==
  IF chunks = <<>> THEN <<>> ELSE Head(chunks) \o Join(Tail(chunks))

\* tts.py 111-112 (127-128, 171-172): np.clip(wave, -1.0, 1.0), then
\* (wave * 32767.0).astype(np.int16): the product is cut towards zero
PcmScale == 32767
Clip(x) ==
  IF x[1] > x[2] THEN <<1, 1>>
  ELSE IF x[1] < 0 - x[2] THEN <<0 - 1, 1>> ELSE x
AsInt16(x) ==
  LET p == x[1] * PcmScale IN
    IF p >= 0 THEN p \div x[2] ELSE 0 - ((0 - p) \div x[2])
ToInt16(wave) ==
  [i \in DOMAIN wave |-> [n |-> wave[i].n, x |-> AsInt16(Clip(wave[i].x))]]

\* struct.pack("<H", v), struct.pack("<I", v), and ndarray.tobytes() of
\* int16 samples (two's complement, little endian)
Le16(v) == <<v % 256, (v \div 256) % 256>>
Le32(v) == Le16(v % 65536) \o Le16(v \div 65536)
ToBytes(pcm) ==
  [i \in DOMAIN pcm |-> [n |-> pcm[i].n, x |-> Le16(pcm[i].x % 65536)]]

\* tts.py 147-165: the 44 bytes "RIFF" size "WAVEfmt " 16 1 channels rate
\* byte_rate block_align bits "data" size
WavHeader_SizeInSamples(num_samples, sample_rate) ==
  LET num_channels == 1
      sample_width == 2
      byte_rate == sample_rate * num_channels * sample_width
      block_align == num_channels * sample_width
      data_size == num_samples * num_channels
      riff_size == 36 + data_size
  IN <<82, 73, 70, 70>> \o Le32(riff_size)
       \o <<87, 65, 86, 69, 102, 109, 116, 32>>
       \o Le32(16) \o Le16(1) \o Le16(num_channels) \o Le32(sample_rate)
       \o Le32(byte_rate) \o Le16(block_align) \o Le16(sample_width * 8)
       \o <<100, 97, 116, 97>> \o Le32(data_size)

WavHeader(num_samples, sample_rate) ==
  LET num_channels == 1
      sample_width == 2
      byte_rate == sample_rate * num_channels * sample_width
      block_align == num_channels * sample_width
      data_size == num_samples * sample_width * num_channels
      riff_size == 36 + data_size
  IN <<82, 73, 70, 70>> \o Le32(riff_size)
       \o <<87, 65, 86, 69, 102, 109, 116, 32>>
       \o Le32(16) \o Le16(1) \o Le16(num_channels) \o Le32(sample_rate)
       \o Le32(byte_rate) \o Le16(block_align) \o Le16(sample_width * 8)
       \o <<100, 97, 116, 97>> \o Le32(data_size)

\* lameenc.Encoder (192 kbit/s, quality 2): encode() takes the samples it is
\* given after those it still holds and returns the frames that are
\* complete, 1152 samples each; flush() returns the last frame. A frame is
\* determined by the samples it encodes.
LameFrame == 1152
LameEncode(held, pcm) ==
  LET all == held \o pcm
      k == TotalLen(all) \div LameFrame
  IN [frames |-> [i \in 1..k |->
                    [n |-> 1,
                     x |-> Canon(Slice(all, (i - 1) * LameFrame, i * LameFrame))]],
      held |-> Slice(all, k * LameFrame, TotalLen(all))]
LameFlush(held) == <<[n |-> 1, x |-> Canon(held)]>>

\* tts.py 108-121: the whole buffer through one encode() and the flush()
EncodeMp3FromFloat32(wave, sample_rate) ==
  LET e == LameEncode(<<>>, ToInt16(wave))
  IN e.frames \o LameFlush(e.held)

\* tts.py 245: sf.write(path, final_wave, sample_rate). soundfile writes a
\* float array to a .wav file as 16-bit PCM behind the same 44-byte header;
\* libsndfile converts each float with lrintf(x * 0x7FFF), rounding to the
\* nearest integer (halves to even), without clipping: the 16 low bits.
LRint(num, den) ==
  LET q == num \div den
      r2 == 2 * (num % den)
  IN IF r2 > den \/ (r2 = den /\ q % 2 = 1) THEN q + 1 ELSE q
SfWrite(wave, sample_rate) ==
  <<[n |-> 1, x |-> WavHeader(TotalLen(wave), sample_rate)]>>
    \o [i \in DOMAIN wave |->
          [n |-> wave[i].n,
           x |-> Le16(LRint(wave[i].x[1] * PcmScale, wave[i].x[2]) % 65536)]]

\* tts.py 243-253: the bytes synthesize_to_file writes to the artifact
SynthesizeToFile(wave, sample_rate, fmt) ==
  IF fmt = "wav" THEN SfWrite(wave, sample_rate)
                 ELSE EncodeMp3FromFloat32(wave, sample_rate)

\* one waveform given to both encoders
EncInputs ==
  [pc : {"start"}, wave : UNION {[1..n -> [n : RunLens, x : Samples]] : n \in 0..MaxRuns},
   sample_rate : SampleRates, fmt : Formats, chunk_samples : ChunkSamples,
   pcm : {<<>>}, start : {0}, step : {0}, held : {<<>>}, out : {<<>>},
   file : {None}]

InitEnc == InitServer /\ enc \in EncInputs /\ syn = NoSyn

\* Long waveforms for the WAV stream: one run of equal samples, up to the
\* longest whose RIFF size 36 + 2n the model checker's integers hold, and
\* the chunk_samples that stream them in at most MaxChunks chunks.
WavLens == {1, 2, 4095, 4096, 4097, 8192, 8193, 24576, 48000, 48001, 96000,
            268435456, 1073741805}
WavChunkSamples == {0, 4096, 4097, 48000, 268435456}
WavInputs ==
  {e \in [pc : {"start"},
          wave : {<<>>} \cup {<<[n |-> n, x |-> x]>> : n \in WavLens, x \in Samples},
          sample_rate : SampleRates, fmt : {"wav"},
          chunk_samples : WavChunkSamples,
          pcm : {<<>>}, start : {0}, step : {0}, held : {<<>>}, out : {<<>>},
          file : {None}] :
     TotalLen(e.wave) <= MaxChunks * Max(4096, e.chunk_samples)}

InitWav == InitServer /\ enc \in WavInputs /\ syn = NoSyn

\* tts.py 249-251 (245): synthesize_to_file encodes the whole buffer and
\* writes it
EncWriteFile ==
  /\ enc.pc # "none"
  /\ enc.file = None
  /\ enc' = [enc EXCEPT !.file = <<SynthesizeToFile(enc.wave, enc.sample_rate,
                                                    enc.fmt)>>]
  /\ UNCHANGED <<jobs, futures, lock, queue, fut, spc, cb, cbNow, hook, wk,
                 stream, files, clock, rq, sw, poll, sse, stop, syn>>

EncStreamBegin_NoFloor ==
  /\ enc.pc = "start"
  /\ enc' = [enc EXCEPT
       !.pc = "chunks",
       !.pcm = ToInt16(enc.wave),
       !.step = enc.chunk_samples,
       !.out = IF enc.fmt = "wav"
                 THEN <<(<<[n |-> 1,
                           x |-> WavHeader(TotalLen(enc.wave), enc.sample_rate)]>>)>>
                 ELSE <<>>]
  /\ UNCHANGED <<jobs, futures, lock, queue, fut, spc, cb, cbNow, hook, wk,
                 stream, files, clock, rq, sw, poll, sse, stop, syn>>

\* tts.py 262-265 with 168-176 or 124-138: the generator starts: the
\* samples are quantized; wav yields the header; the step is
\* max(4096, chunk_samples) for wav and max(1152, chunk_samples) for mp3
EncStreamBegin ==
  /\ enc.pc = "start"
  /\ enc' = [enc EXCEPT
       !.pc = "chunks",
       !.pcm = ToInt16(enc.wave),
       !.step = IF enc.fmt = "wav" THEN Max(4096, enc.chunk_samples)
                                   ELSE Max(LameFrame, enc.chunk_samples),
       !.out = IF enc.fmt = "wav"
                 THEN <<(<<[n |-> 1,
                           x |-> WavHeader(TotalLen(enc.wave), enc.sample_rate)]>>)>>
                 ELSE <<>>]
  /\ UNCHANGED <<jobs, futures, lock, queue, fut, spc, cb, cbNow, hook, wk,
                 stream, files, clock, rq, sw, poll, sse, stop, syn>>

\* tts.py 178-182 and 139-143: the next chunk is yielded
EncStreamChunk ==
  /\ enc.pc = "chunks"
  /\ enc.start < TotalLen(enc.pcm)
  /\ LET end == Min(enc.start + enc.step, TotalLen(enc.pcm))
         chunk == Slice(enc.pcm, enc.start, end)
         e == LameEncode(enc.held, chunk)
     IN enc' = [enc EXCEPT
          !.start = end,
          !.held = IF enc.fmt = "wav" THEN @ ELSE e.held,
          !.out = Append(@, IF enc.fmt = "wav" THEN ToBytes(chunk) ELSE e.frames)]
  /\ UNCHANGED <<jobs, futures, lock, queue, fut, spc, cb, cbNow, hook, wk,
                 stream, files, clock, rq, sw, poll, sse, stop, syn>>

\* tts.py 178 and 139, 144: the loop ends; mp3 yields enc.flush()
EncStreamEnd ==
  /\ enc.pc = "chunks"
  /\ enc.start >= TotalLen(enc.pcm)
  /\ enc' = [enc EXCEPT
       !.pc = "end",
       !.out = IF enc.fmt = "wav" THEN @ ELSE Append(@, LameFlush(enc.held))]
  /\ UNCHANGED <<jobs, futures, lock, queue, fut, spc, cb, cbNow, hook, wk,
                 stream, files, clock, rq, sw, poll, sse, stop, syn>>

\* ------------------------------------------------------------------- seed
\* A seed is a Python int, which has no width: it is kept as
\* hi * 2^31 + lo with 0 <= lo < 2^31, and compared as such.
SeedLows == {0, 1, 2, 42, 65535, 65536, 1073741823, 1073741824,
             2147483645, 2147483646, 2147483647}
Seeds == [hi : {0 - 2, 0 - 1, 0, 1, 2}, lo : SeedLows]
SeedOf(lo) == [hi |-> 0, lo |-> lo]
SeedLess(a, b) == a.hi < b.hi \/ (a.hi = b.hi /\ a.lo < b.lo)
\* 2**31 - 1
SeedMax == SeedOf(2147483647)
\* np.random.randint(0, 2**31 - 1): the upper end is not drawn
FreshSeeds == {SeedOf(lo) : lo \in {l \in SeedLows : l < SeedMax.lo}}

SynInputs == [pc : {"called"}, given : Seeds, used : Seeds]

InitSeed ==
  /\ InitServer /\ enc = NoEnc
  /\ syn \in {c \in SynInputs : c.used = c.given}

SynSeed_OnlyNegative(fresh) ==
  /\ syn.pc = "called"
  /\ syn' = [syn EXCEPT
       !.pc = "seeded",
       !.used = IF SeedLess(syn.given, SeedOf(0)) THEN fresh ELSE syn.given]
  /\ UNCHANGED <<jobs, futures, lock, queue, fut, spc, cb, cbNow, hook, wk,
                 stream, files, clock, rq, sw, poll, sse, enc, stop>>

\* tts.py 201-203: if seed < 0 or seed > 2**31 - 1: seed = a fresh one;
\* torch.manual_seed(seed)
SynSeed(fresh) ==
  /\ syn.pc = "called"
  /\ syn' = [syn EXCEPT
       !.pc = "seeded",
       !.used = IF SeedLess(syn.given, SeedOf(0)) \/ SeedLess(SeedMax, syn.given)
                  THEN fresh ELSE syn.given]
  /\ UNCHANGED <<jobs, futures, lock, queue, fut, spc, cb, cbNow, hook, wk,
                 stream, files, clock, rq, sw, poll, sse, enc, stop>>

\* tts.py 205-214: infer_process runs under the seed that was set
SynInfer ==
  /\ syn.pc = "seeded"
  /\ syn' = [syn EXCEPT !.pc = "inferred"]
  /\ UNCHANGED <<jobs, futures, lock, queue, fut, spc, cb, cbNow, hook, wk,
                 stream, files, clock, rq, sw, poll, sse, enc, stop>>

\* ------------------------------------------------------------------ clock
Tick ==
  /\ clock < MaxTime
  /\ clock' = clock + 1
  /\ UNCHANGED <<jobs, futures, lock, queue, fut, spc, cb, cbNow, hook, wk,
                 stream, files, rq, sw,
                 poll, sse, enc, stop, syn>>

\* ----------------------------------------------------------- specifications
Pool ==
  \/ \E j \in JobIds : SubmitEnqueue(j)
  \/ \E j \in JobIds : SubmitAttach(j)
  \/ \E j \in JobIds : SubmitStore(j)
  \/ \E w \in Workers : RunWithStatus(w)
  \/ \E w \in Workers, ok \in BOOLEAN : SynthesizeRaw(w, ok)
  \/ \E w \in Workers, fmt \in Formats, ok \in BOOLEAN : WriteOpen(w, fmt, ok)
  \/ \E w \in Workers, ok \in BOOLEAN : WriteClose(w, ok)
  \/ \E j \in JobIds : CallbackResult(j)
  \/ \E j \in JobIds : CallbackDoneStatus(j)
  \/ \E j \in JobIds : CallbackDonePath(j)
  \/ \E j \in JobIds : CallbackDoneMime(j)
  \/ \E j \in JobIds : CallbackDoneName(j)
  \/ \E j \in JobIds, started \in BOOLEAN : CallbackHook(j, started)
  \/ \E j \in JobIds : CallbackErrorStatus(j)
  \/ \E j \in JobIds : CallbackErrorDiag(j)
  \/ \E j \in JobIds, started \in BOOLEAN : CallbackHookError(j, started)

NextPool ==
  \/ \E v \in VoiceIds, url \in CallbackUrls : CreateSynthesisJob(MaxJobs, v, url)
  \/ Pool
  \/ \E j \in JobIds : WebhookGet(j)
  \/ \E j \in JobIds, ok \in BOOLEAN : WebhookPost(j, ok)
  \/ \E v \in VoiceIds : StreamBegin(v)
  \/ StreamEnd

SpecPool == Init /\ [][NextPool]_vars

\* Fair scheduling: a thread of the pool, a callback or a submit call that
\* can take its next step is not held back forever.
FairPool == SpecPool /\ WF_vars(Pool)

Next ==
  \/ \E v \in VoiceIds, url \in CallbackUrls : CreateSynthesisJob(MaxServed, v, url)
  \/ Pool
  \/ \E op \in Requests, id \in JobIds : RequestGet(op, id)
  \/ AudioCheck
  \/ TouchNow
  \/ \E utime \in BOOLEAN : Touch(utime)
  \/ StatusAudioUrl
  \/ StatusBuild
  \/ DownloadRead
  \/ HeadRespond
  \/ LoopWarmup
  \/ LoopCheck
  \/ LoopWait
  \/ CleanupBegin
  \/ CleanupLock
  \/ \E unlinked \in BOOLEAN : CleanupJob(unlinked)
  \/ CleanupCheckRaises
  \/ CleanupLoopCatch
  \/ CleanupClearPath
  \/ CleanupClearName
  \/ CleanupClearMime
  \/ CleanupUnlock
  \/ \E p \in JobIds : CleanupOrphan(p)
  \/ \E p \in JobIds : CleanupOrphanRaises(p)
  \/ \E unlinked \in BOOLEAN : CleanupOrphanUnlink(unlinked)
  \/ CleanupReturn
  \/ Tick

Spec == Init /\ [][Next]_vars

\* the scheduler with one client on the event stream of a job
NextSse ==
  \/ \E v \in VoiceIds, url \in CallbackUrls : CreateSynthesisJob(MaxServed, v, url)
  \/ Pool
  \/ \E id \in JobIds : SseOpen(id)
  \/ SseDisconnect
  \/ SseGet
  \/ SsePoll

SpecSse == Init /\ [][NextSse]_vars

\* the two encodings of one waveform
NextEnc ==
  \/ EncWriteFile
  \/ EncStreamBegin
  \/ EncStreamChunk
  \/ EncStreamEnd

SpecEnc == InitEnc /\ [][NextEnc]_vars

NextSeed ==
  \/ \E fresh \in FreshSeeds : SynSeed(fresh)
  \/ SynInfer

SpecSeed == InitSeed /\ [][NextSeed]_vars

NextWav ==
  \/ EncStreamBegin
  \/ EncStreamChunk
  \/ EncStreamEnd

SpecWav == InitWav /\ [][NextWav]_vars

\* the registry under two clients polling a job's status, and the sweeper
NextTtl ==
  \/ \E v \in Voices : CreateSynthesisJob(MaxServed, v, None)
  \/ Pool
  \/ \E id \in JobIds : RequestGet("status", id)
  \/ TouchNow
  \/ \E utime \in BOOLEAN : Touch(utime)
  \/ StatusAudioUrl
  \/ StatusBuild
  \/ \E id \in JobIds : PollTouchNow(id)
  \/ \E utime \in BOOLEAN : PollTouch(utime)
  \/ LoopWarmup
  \/ LoopCheck
  \/ LoopWait
  \/ CleanupBegin
  \/ CleanupLock
  \/ \E unlinked \in BOOLEAN : CleanupJob(unlinked)
  \/ CleanupCheckRaises
  \/ CleanupLoopCatch
  \/ CleanupClearPath
  \/ CleanupClearName
  \/ CleanupClearMime
  \/ CleanupUnlock
  \/ \E p \in JobIds : CleanupOrphan(p)
  \/ \E p \in JobIds : CleanupOrphanRaises(p)
  \/ \E unlinked \in BOOLEAN : CleanupOrphanUnlink(unlinked)
  \/ CleanupReturn
  \/ Tick

SpecTtl == Init /\ [][NextTtl]_vars

\* =================================================================== claims
Terminal == {"done", "error"}

\* C1: a job's status changes only queued -> running -> done or
\* queued -> running -> error, and a done or error status never changes.
C1_StatusOnlyForward ==
  [][\A j \in DOMAIN jobs :
       jobs'[j].status # jobs[j].status =>
         <<jobs[j].status, jobs'[j].status>> \in
           {<<"queued", "running">>, <<"running", "done">>,
            <<"running", "error">>}]_vars

\* C2: under fair scheduling every job that submit created eventually has
\* status done or error, whatever happened to the tasks before it.
C2_EveryJobTerminates ==
  \A j \in JobIds :
    [](j \in DOMAIN jobs =>
         <>(j \in DOMAIN jobs /\ jobs[j].status \in Terminal))

\* C2 witness: the first task failed and the job after it still finished.
C2_SecondJobDoneAfterFailure ==
  /\ Len(jobs) >= 2
  /\ fut[1].state = "fail"
  /\ jobs[1].status = "error"
  /\ jobs[2].status = "done"

\* the calls of synthesize_raw in progress, pool and streaming endpoint
SynthInProgress ==
  Cardinality({w \in Workers : wk[w].pc = "synth"})
    + (IF stream = "synth" THEN 1 ELSE 0)

\* C3: at most max_workers calls of synthesize_raw are in progress at any
\* moment, counting the pool and the synthesizeStreaming endpoint.
C3_SynthBoundedByWorkers == SynthInProgress <= MAX_WORKERS

\* C4: a reader that got a job through get() never observes a partially
\* updated record: in the status response filename and mime_type, which
\* every update writes or clears together, are both set or both unset.
C4_ReadersSeeWholeRecords ==
  (rq.pc = "idle" /\ rq.op = "status" /\ rq.code = 200) =>
    ((rq.obs.filename = None) <=> (rq.obs.mime_type = None))

\* C5: whenever the registry lock is free, every job has result_path set
\* only if its status is done, and filename and mime_type set exactly when
\* result_path is set.
C5_RecordInvariant ==
  lock = None =>
    \A j \in DOMAIN jobs :
      /\ jobs[j].result_path # None => jobs[j].status = "done"
      /\ (jobs[j].filename # None) <=> (jobs[j].result_path # None)
      /\ (jobs[j].mime_type # None) <=> (jobs[j].result_path # None)

\* C6: a job whose task failed ends in status error with a non-empty
\* diagnostic and no result_path, filename or mime_type; and a job's error
\* is set only when its status is error.
C6_FailedTaskEndsInError ==
  \A j \in DOMAIN jobs :
    /\ (fut[j].state = "fail" /\ cb[j] \in {"hook_error", "end"}) =>
         /\ jobs[j].status = "error"
         /\ jobs[j].error # None /\ Len(jobs[j].error) > 0
         /\ jobs[j].result_path = None
         /\ jobs[j].filename = None
         /\ jobs[j].mime_type = None
    /\ jobs[j].error # None => jobs[j].status = "error"

\* C6 witness: writing the artifact raised half-way and the callback has
\* recorded the failure.
C6_WriteFailedJobInError ==
  \E j \in DOMAIN jobs :
    /\ fut[j].state = "fail" /\ cb[j] = "end"
    /\ files[j].state = "partial"
    /\ jobs[j].status = "error" /\ jobs[j].error = Diagnostic

\* C7: downloadAudio of a known job answers Conflict (409), Gone (410) or
\* the complete bytes of the artifact (200), and nothing else.
C7_DownloadOutcomes ==
  (rq.pc = "idle" /\ rq.op = "download" /\ rq.code \notin {0, 404}) =>
    /\ rq.code \in {409, 410, 200}
    /\ rq.code = 200 => rq.body = "complete"

\* C8: downloadAudio (and HEAD) of a job whose status is error answers
\* Gone (410).
C8_ErrorJobAudioGone ==
  [][(rq.pc = "check" /\ rq'.pc = "idle" /\ jobs[rq.job].status = "error")
       => rq'.code = 410]_vars

\* C9: a submission with an unknown voice_id answers NotFound (404) and
\* leaves the registry and the scheduler queue as they were; no job in the
\* registry was ever made for an unknown voice.
C9_UnknownVoiceNotFound ==
  /\ [][\A v \in VoiceIds \ Voices, url \in CallbackUrls :
          CreateSynthesisJob(MaxJobs, v, url) =>
            /\ rq'.op = "create" /\ rq'.code = 404
            /\ jobs' = jobs /\ queue' = queue
            /\ spc' = spc /\ fut' = fut /\ futures' = futures]_vars
  /\ [](\A j \in DOMAIN jobs : fut[j].voice \in Voices)

\* C9 witness: an unknown voice was refused while a job was registered and
\* its task queued.
C9_RefusedWhileQueued ==
  /\ rq.op = "create" /\ rq.code = 404
  /\ Len(jobs) >= 1 /\ queue # <<>>

\* the sweep's loop is at job sw.idx and takes its step
SweepVisits == sw.pc = "jobs" /\ sw.idx \in DOMAIN jobs /\ sw' # sw
\* the job is done, its artifact exists and now - last_access_ts >= retention
SweepFindsExpired ==
  /\ jobs[sw.idx].status = "done"
  /\ Exists(jobs[sw.idx].result_path)
  /\ sw.now >= jobs[sw.idx].last_access_ts + Retention
\* the sweep has finished with job sw.idx: its artifact fields are cleared
\* and it is still done
SweepCleared ==
  (sw.pc = "clear_mime" /\ sw' # sw) =>
    /\ jobs'[sw.idx].result_path = None
    /\ jobs'[sw.idx].filename = None
    /\ jobs'[sw.idx].mime_type = None
    /\ jobs'[sw.idx].status = "done"
\* no step of the sweep changes a job's id, status, error or callback_url
SweepKeepsRecord ==
  sw' # sw =>
    /\ DOMAIN jobs' = DOMAIN jobs
    /\ \A j \in DOMAIN jobs :
         /\ jobs'[j].id = jobs[j].id
         /\ jobs'[j].status = jobs[j].status
         /\ jobs'[j].error = jobs[j].error
         /\ jobs'[j].callback_url = jobs[j].callback_url

\* C10 as claimed: a sweep that finds a done job with an existing artifact
\* and now - last_access_ts >= retention removes the file and clears
\* result_path, filename and mime_type; the record stays, done, with its
\* id, error and callback_url.
C10_SweepRemovesAndClears ==
  /\ [][(SweepVisits /\ SweepFindsExpired) =>
          /\ sw'.pc = "clear_path"
          /\ files'[jobs[sw.idx].result_path[2]].state = "absent"]_vars
  /\ [][SweepCleared]_vars
  /\ [][SweepKeepsRecord]_vars

\* C10 as amended: once the sweep's existence check has returned, the
\* fields are cleared in every case; the file is removed and counted unless
\* the unlink raises, and then it stays on disk and is not counted. A
\* check that raises ends the sweep with the job and the file untouched.
C10_SweepClearsAndUnlinks ==
  /\ [][(SweepVisits /\ SweepFindsExpired) =>
          \/ /\ sw'.pc = "clear_path"
             /\ \/ /\ files'[jobs[sw.idx].result_path[2]].state = "absent"
                   /\ sw'.deleted = sw.deleted + 1
                \/ /\ files' = files
                   /\ sw'.deleted = sw.deleted
          \/ /\ sw'.pc = "raised"
             /\ jobs' = jobs /\ files' = files
             /\ sw'.deleted = sw.deleted]_vars
  /\ [][SweepCleared]_vars
  /\ [][SweepKeepsRecord]_vars

\* C10 witness: a sweep has evicted a done job: the file is gone, the
\* fields are cleared, the record is still there.
C10_Evicted ==
  \E j \in DOMAIN jobs :
    /\ sw.pc = "jobs" /\ sw.idx = j + 1 /\ sw.deleted = 1
    /\ jobs[j].status = "done"
    /\ jobs[j].result_path = None /\ jobs[j].filename = None
    /\ jobs[j].mime_type = None
    /\ files[j].state = "absent"

\* C11: a done job that a status poll accessed at time t is not evicted by a
\* sweep whose current time is earlier than t + retention_seconds: when
\* the sweep visits the job after the poll's touch has returned, it does
\* not take the eviction branch.
C11_AccessedJobNotEvicted ==
  [][(/\ SweepVisits
      /\ poll.pc = "idle" /\ poll.job = sw.idx /\ poll.status = "done"
      /\ sw.now < poll.now + Retention)
       => sw'.pc # "clear_path"]_vars

\* C12: no step of cleanup_expired changes any field of a job whose status
\* is queued, running or error, however old its last_access_ts is; the
\* sweep takes its eviction branch for jobs in status done only.
C12_SweepLeavesUnfinishedJobs ==
  [][sw' # sw =>
       /\ \A j \in DOMAIN jobs :
            jobs[j].status \in {"queued", "running", "error"} =>
              jobs'[j] = jobs[j]
       /\ sw'.pc = "clear_path" => jobs[sw.idx].status = "done"]_vars

\* C12 witness: the sweep has passed a job in status error whose artifact
\* is on disk and whose last access is older than the retention, and left
\* its fields as they were.
C12_ErrorJobPassedOver ==
  \E j \in DOMAIN jobs :
    /\ sw.pc = "jobs" /\ sw.idx = j + 1
    /\ jobs[j].status = "error"
    /\ jobs[j].result_path # None /\ Exists(jobs[j].result_path)
    /\ sw.now >= jobs[j].last_access_ts + Retention

\* C13: once a job's completion has recorded done or error (the callback no
\* longer holds the lock for it), nothing changes its status or error: not
\* a failed POST, not a dispatch thread that could not be started.
C13_WebhookFailureKeepsState ==
  [][\A j \in DOMAIN jobs :
       (jobs[j].status \in Terminal /\ lock # <<"callback", j>>) =>
         /\ jobs'[j].status = jobs[j].status
         /\ jobs'[j].error = jobs[j].error]_vars

\* C14: per job at most one webhook POST is attempted; a POST is attempted
\* only for a job with a callback_url whose status is done or error, and
\* its payload carries that status.
C14_OnePostAfterTerminal ==
  \A j \in JobIds :
    /\ hook[j].posts <= 1
    /\ (hook[j].pc = "post" \/ hook[j].posts > 0) =>
         /\ j \in DOMAIN jobs
         /\ jobs[j].callback_url # None
         /\ jobs[j].status \in Terminal
         /\ hook[j].status = jobs[j].status
    /\ (hook[j].pc = "finished" /\ jobs[j].callback_url # None) =>
         hook[j].posts = 1

\* C14 witness: one job with a callback_url got its single POST carrying
\* "done", and a job without callback_url finished with no POST.
C14_PostedOnceAndNotAtAll ==
  \E i, j \in DOMAIN jobs :
    /\ jobs[i].callback_url # None /\ hook[i].pc = "finished"
    /\ hook[i].posts = 1 /\ hook[i].status = "done"
    /\ jobs[j].callback_url = None /\ hook[j].pc = "finished"
    /\ hook[j].posts = 0

\* C15: the submit calls made so far created as many records, under
\* pairwise distinct ids; a record is never removed and never replaced (its
\* id and callback_url stay and it never returns to a fresh "queued").
C15_DistinctIdsRecordsKept ==
  /\ [](Len(jobs) = Cardinality({j \in JobIds : spc[j] # "none"}))
  /\ [](\A i, j \in DOMAIN jobs : i # j => jobs[i].id # jobs[j].id)
  /\ [][\A j \in DOMAIN jobs :
          /\ j \in DOMAIN jobs'
          /\ jobs'[j].id = jobs[j].id
          /\ jobs'[j].callback_url = jobs[j].callback_url
          /\ jobs'[j].status = "queued" => jobs[j].status = "queued"]_vars

\* C15 witness: two submit calls are in progress at the same time, each
\* with its own record.
C15_TwoSubmitsInProgress ==
  /\ Len(jobs) = 2
  /\ spc[1] = "attach" /\ spc[2] = "attach"
  /\ jobs[1].id # jobs[2].id

\* the tasks a worker has taken from the queue
Dequeued == {j \in JobIds : fut[j].state \in {"running", "ok", "fail"}}

\* C16: with one worker, the job that becomes running is the oldest queued
\* one, every job whose task was taken before it has reached done or
\* error by then, and a queued task stays in the queue until it is taken.
C16_FifoOneAtATime ==
  /\ [][\A b \in DOMAIN jobs :
          (jobs[b].status = "queued" /\ jobs'[b].status = "running") =>
            /\ queue # <<>> /\ Head(queue) = b
            /\ \A a \in Dequeued : jobs[a].status \in Terminal]_vars
  /\ [](\A j \in JobIds :
          fut[j].state = "pending" =>
            Cardinality({i \in DOMAIN queue : queue[i] = j}) = 1)

\* C17: a job's last_access_ts never decreases, whatever the interleaving of
\* touch calls and the completion callback, the clock never going back.
C17_LastAccessNeverDecreases ==
  [][\A j \in DOMAIN jobs :
       jobs'[j].last_access_ts >= jobs[j].last_access_ts]_vars

\* the statuses of the events emitted so far
Emitted == [i \in DOMAIN sse.events |-> sse.events[i].status]
\* this step emits an event
Emits == Len(sse'.events) = Len(sse.events) + 1

C19_StreamEqualsFile ==
  (enc.pc = "end" /\ enc.file # None) =>
    Canon(Join(enc.out)) = Canon(enc.file[1])

\* the files this step removes from OUTPUT_DIR
Removed ==
  {p \in JobIds : files[p].state # "absent" /\ files'[p].state = "absent"}

\* the places of the sweeper inside cleanup_expired
InSweep == {"lock", "jobs", "clear_path", "clear_name", "clear_mime",
            "orphans", "unlink"}

\* ------------------------------------------------------------- shutdown
\* the thread "output-cleaner": main.py 41-48 and cleanup_expired
Sweeper ==
  \/ LoopWarmup
  \/ LoopCheck
  \/ LoopWait
  \/ CleanupBegin
  \/ CleanupLock
  \/ \E unlinked \in BOOLEAN : CleanupJob(unlinked)
  \/ CleanupLoopCatch
  \/ CleanupClearPath
  \/ CleanupClearName
  \/ CleanupClearMime
  \/ CleanupUnlock
  \/ \E p \in JobIds : CleanupOrphan(p)
  \/ \E unlinked \in BOOLEAN : CleanupOrphanUnlink(unlinked)
  \/ CleanupReturn

NextStop ==
  \/ \E v \in Voices : CreateSynthesisJob(MaxServed, v, None)
  \/ Pool
  \/ Sweeper
  \/ CleanupCheckRaises
  \/ \E p \in JobIds : CleanupOrphanRaises(p)
  \/ Shutdown
  \/ Tick

SpecStop == Init /\ [][NextStop]_vars

\* Fair scheduling: the sweeper thread, when it can take its next step, is
\* not held back forever (its sleeps have timeouts, its lock is released by
\* every holder), and neither is the pool.  That the filesystem raises, that
\* the service shuts down, that a client submits: none of these is owed.
FairStop == SpecStop /\ WF_vars(Sweeper) /\ WF_vars(Pool)

\* the places of the sweeper in its loop, outside an iteration
OutsideCycle == {"warmup", "check", "wait", "exited"}

\* C20: cleanup_expired never leaves by an exception, whatever the
\* filesystem does, and its count grows by exactly the files each step
\* removes: a failed deletion is not counted.
C20_SweepNeverRaises ==
  /\ [](sw.pc # "raised")
  /\ [][sw.pc \in InSweep =>
          sw'.deleted = sw.deleted + Cardinality(Removed)]_vars

\* C21: the orphan scan removes a file only if it is older than the
\* retention window and no job tracks it at that moment; and, outside the
\* sweep's own eviction, a done job with a result_path has its file.
C21_OrphanScanSparesArtifacts ==
  /\ [][(sw.pc = "unlink" /\ sw'.pc = "orphans"
          /\ files'[sw.idx].state = "absent") =>
          /\ Expired(sw.now, files[sw.idx].mtime)
          /\ ~IsTrackedFile(sw.idx)]_vars
  /\ [](lock = None =>
          \A j \in DOMAIN jobs :
            (jobs[j].status = "done" /\ jobs[j].result_path # None) =>
              Exists(jobs[j].result_path))

\* C26: at every moment at most max_workers jobs have the recorded status
\* running.
C26_RunningBoundedByWorkers ==
  Cardinality({j \in DOMAIN jobs : jobs[j].status = "running"}) <= MAX_WORKERS

\* C22: once the stop signal is set, the loop test never passes again, so a
\* sweeper that is warming up, waiting or at its test starts no sweep, and a
\* sweep under way is the last; the loop then ends.  While the signal is not
\* set, sweeps keep starting, also after a sweep that raised.
C22_StopEndsSweeper ==
  /\ [][stop => ~(sw.pc = "check" /\ sw'.pc = "idle")]_vars
  /\ [][(stop /\ sw.pc \in OutsideCycle) => sw'.pc \in OutsideCycle]_vars
  /\ [][(stop /\ sw.pc \in InSweep \cup {"raised"}) =>
          sw'.pc \in InSweep \cup {"raised", "wait"}]_vars
  /\ [][stop => stop']_vars
  /\ (stop ~> sw.pc = "exited")
  /\ [](sw.pc = "exited" => stop)
  /\ []<>(stop \/ sw.pc = "lock")
  /\ (sw.pc = "raised" ~> (stop \/ sw.pc = "lock"))

\* the loop has ended on the signal, after a sweep that evicted the artifact
C22_ExitedAfterSweep ==
  /\ stop
  /\ sw.pc = "exited"
  /\ \E j \in DOMAIN jobs : jobs[j].status = "done" /\ jobs[j].result_path = None

\* the unsigned integer of four little-endian bytes, and the bytes in a
\* string of runs
FromLe32(b) == b[1] + 256 * b[2] + 65536 * b[3] + 16777216 * b[4]
RECURSIVE ByteLen(_)
ByteLen(runs) ==
  IF runs = <<>> THEN 0
  ELSE Head(runs).n * Len(Head(runs).x) + ByteLen(Tail(runs))

\* C23: the header of the WAV stream of n samples is 44 bytes, its data size
\* field (bytes 40-43) holds 2n and its RIFF size field (bytes 4-7) holds
\* 36 + 2n, and the chunks after it hold 2n bytes in all.
C23_WavHeaderSizes ==
  (enc.pc \in {"chunks", "end"} /\ enc.fmt = "wav") =>
    LET n == TotalLen(enc.wave)
        head == enc.out[1]
    IN /\ Len(head) = 1 /\ head[1].n = 1
       /\ Len(head[1].x) = 44
       /\ FromLe32(SubSeq(head[1].x, 41, 44)) = n * 2
       /\ FromLe32(SubSeq(head[1].x, 5, 8)) = 36 + n * 2
       /\ enc.pc = "end" => ByteLen(Join(Tail(enc.out))) = n * 2

\* a stream of more than 2 ^ 30 bytes in several chunks has ended
C23_LongStreamEnded ==
  /\ enc.pc = "end" /\ enc.fmt = "wav"
  /\ TotalLen(enc.wave) = 1073741805
  /\ Len(enc.out) = 5

\* the seed is one of 0 .. 2^31 - 1
SeedInRange(seed) == ~SeedLess(seed, SeedOf(0)) /\ ~SeedLess(SeedMax, seed)

\* C24: the seed set for synthesis is within 0 .. 2^31 - 1: the caller's
\* seed itself when that is in the range, a fresh one otherwise; and
\* inference starts only after the seed was set, under that seed.
C24_SeedUsedInRange ==
  /\ [](syn.pc \in {"seeded", "inferred"} =>
          /\ SeedInRange(syn.used)
          /\ SeedInRange(syn.given) => syn.used = syn.given
          /\ ~SeedInRange(syn.given) => syn.used \in FreshSeeds)
  /\ [][syn'.pc = "inferred" =>
          syn.pc = "seeded" /\ syn'.used = syn.used]_vars

\* inference under a seed that replaced one above 2^31 - 1
C24_LargeSeedReplaced ==
  /\ syn.pc = "inferred"
  /\ syn.given = [hi |-> 1, lo |-> 0]
  /\ syn.used = SeedOf(2147483646)

\* the samples inside a sequence of MP3 frames, and the loop iterations it
\* takes to pass n samples
RECURSIVE Contents(_)
Contents(frames) ==
  IF frames = <<>> THEN <<>> ELSE Head(frames).x \o Contents(Tail(frames))
StepsFor(n, step) == (n + step - 1) \div step

\* C25: whatever chunk_samples is, the stream is finite and in order. WAV:
\* the header first, then non-empty slices of at most
\* max(4096, chunk_samples) samples that together are samples 0 .. n-1.
\* MP3: the encoder has been given exactly the samples before the cursor,
\* the cursor moves by a step of at least 1152 samples or to the end, and
\* one flush chunk ends the stream.
C25_ChunksCoverWave ==
  /\ [](enc.pc \in {"chunks", "end"} =>
          LET n == TotalLen(enc.pcm)
              wav == enc.fmt = "wav"
              done == Slice(enc.pcm, 0, enc.start)
          IN /\ n = TotalLen(enc.wave)
             /\ enc.start \in 0..n
             /\ enc.step >= enc.chunk_samples
             /\ enc.step >= (IF wav THEN 4096 ELSE LameFrame)
             /\ Len(enc.out) = StepsFor(enc.start, enc.step)
                    + (IF wav \/ enc.pc = "end" THEN 1 ELSE 0)
             /\ wav =>
                  /\ enc.out[1] =
                       <<[n |-> 1, x |-> WavHeader(n, enc.sample_rate)]>>
                  /\ \A i \in 2..Len(enc.out) :
                       /\ TotalLen(enc.out[i]) >= 1
                       /\ TotalLen(enc.out[i]) <= Max(4096, enc.chunk_samples)
                  /\ Canon(Join(Tail(enc.out))) = Canon(ToBytes(done))
             /\ ~wav =>
                  Canon(Contents(Join(enc.out))
                          \o (IF enc.pc = "end" THEN <<>> ELSE enc.held))
                    = Canon(done)
             /\ enc.pc = "end" =>
                  /\ enc.start = n
                  /\ ~wav => Len(enc.out[Len(enc.out)]) = 1)
  /\ [][(enc.pc = "chunks" /\ enc'.pc = "chunks" /\ enc'.out # enc.out) =>
          /\ enc'.start > enc.start
          /\ enc'.start - enc.start = enc.step
               \/ enc'.start = TotalLen(enc.pcm)
          /\ UNCHANGED <<enc.step, enc.pcm>>]_vars

\* an MP3 stream of eight encode chunks and the flush has ended, asked for
\* with a negative chunk_samples
C25_StreamEndedInNineChunks ==
  /\ enc.pc = "end" /\ enc.fmt = "mp3"
  /\ enc.chunk_samples < 0
  /\ Len(enc.out) = 9

====
